---- MODULE Spec2Model ----
(***************************************************************************)
(* The continuous listening pipeline of lib/tjbotczlib.js: the TJBot      *)
(* methods listen, pauseListening, resumeListening, stopListening, the    *)
(* handlers listen() registers on the speech-to-text text stream, the     *)
(* microphone instances and recognition streams they drive, and play(),   *)
(* which pauses and resumes the microphone around a sound.                *)
(*                                                                         *)
(* One TJBot instance is modelled.  A microphone instance is what         *)
(* Mic(micParams) returns; a recognition stream is what                   *)
(* _stt.recognizeUsingWebSocket(params) returns.  Both are numbered in    *)
(* the order of their construction.  Every handler of the program runs to *)
(* completion (one JavaScript event-loop turn), so each is one action.    *)
(***************************************************************************)
EXTENDS Integers, Sequences, FiniteSets, TLC

\* ------------------------------------------------------------------ bounds

\* Microphone instances one behaviour may construct (the constructor's one
\* included); one recognition stream is opened per listen(), so at most
\* MaxMics - 1 streams: a session and two reconnects in a row.
MaxMics == 4
\* Data events the recognition streams emit in one behaviour.
MaxData == 2

\* Sound players that play at the same time.
MaxPlayers == 2

MicIds == 1..MaxMics
StreamIds == 1..(MaxMics - 1)

\* ------------------------------------------------------------ input values

\* JavaScript's undefined, for a field or an argument that is absent.
Undefined == "undefined"

\* The callbacks a caller passes to listen(): a sink, or none.
Sinks == {"sinkA"}
Callbacks == Sinks \cup {Undefined}

\* Values of configuration.listen.customization_id: absent, the default ''
\* (defaultConfiguration) or the id of a trained model.
CustomizationIds == {Undefined, "", "custom-1"}

\* Values of configuration.listen.language: the default and one other of
\* TJBot.prototype.languages.listen.
Languages == {"en-US", "ja-JP"}

\* The sound files a caller passes to play().
SoundFiles == {"sound.wav"}

\* What an 'error' event of a text stream carries: nothing, an error of the
\* transport (the connection to the service broke), or an error the service
\* answers a request with that it cannot serve (malformed audio parameters).
ErrValues == {Undefined, "transport", "config"}

\* ------------------------------------------------------------------- state

VARIABLES
    _mic,                 \* this._mic: 0 (undefined) or a microphone instance
    _stt,                 \* this._stt is defined (speech_to_text credentials)
    _soundplayer,         \* this._soundplayer is defined ('speaker' in hardware)
    players,              \* the sound players that play() started and that play
    _micRecognizeStream,  \* this._micRecognizeStream: 0 or a stream
    configuration,        \* this.configuration.listen
    mics,                 \* the microphone instances constructed so far
    streams,              \* the recognition streams opened so far
    emitted,              \* per stream, the transcripts of its data events, in order
    sinkLog,              \* per stream, the invocations of callbacks made for it, in order
    pauseRequested,       \* a pauseListening() not yet followed by resumeListening()
    lastOp                \* the operation or event of the last step

vars == <<_mic, _stt, _soundplayer, players, _micRecognizeStream, configuration, mics, streams,
          emitted, sinkLog, pauseRequested, lastOp>>

\* ------------------------------------------------- JavaScript truthiness

\* if (x) on a string-valued or absent x: '' and undefined are falsy.
Truthy(v) == v \notin {Undefined, ""}

\* ------------------------------------------- the microphone (require('mic'))

\* An instance is "created" until start() spawns its capture process, then
\* "capturing" or "paused"; stop() kills the process ("stopped").  stop(),
\* pause() and resume() do nothing on an instance with no process.

NoMic == [state |-> "none", params |-> [rate |-> 0, channels |-> 0, device |-> Undefined],
          pipedTo |-> 0]

\* micParams of _setupMicrophone.
MicParams(cfg) ==
    [rate |-> 16000, channels |-> 2,
     device |-> IF Truthy(cfg.microphoneDeviceId) THEN cfg.microphoneDeviceId ELSE Undefined]

\* Mic(micParams): an instance whose capture process is not spawned yet.
MicNew(params) == [state |-> "created", params |-> params, pipedTo |-> 0]

\* mic.start(): spawns the capture process unless one is running.
MicStartSkipped(m) == m
MicStart(m) ==
    IF m.state \in {"created", "stopped"} THEN [m EXCEPT !.state = "capturing"] ELSE m

\* mic.stop(): kills the capture process if one is running.
MicStop(m) ==
    IF m.state \in {"capturing", "paused"} THEN [m EXCEPT !.state = "stopped"] ELSE m

\* mic.pause(): suspends the capture process if one is running.
MicPause(m) ==
    IF m.state \in {"capturing", "paused"} THEN [m EXCEPT !.state = "paused"] ELSE m

\* mic.resume(): continues the capture process if one is running.
MicResumeRespawns(m) ==
    IF m.state \in {"capturing", "paused", "stopped"} THEN [m EXCEPT !.state = "capturing"] ELSE m
MicResume(m) ==
    IF m.state \in {"capturing", "paused"} THEN [m EXCEPT !.state = "capturing"] ELSE m

\* ------------------------------------------------ the recognition stream

\* configuration.listen.backgroundAudioSuppression || 0.0, the factor kept
\* as the text of the number: an absent factor and 0 both give 0.
SuppressionOrZero(v) == IF v \in {Undefined, "0", "0.0"} THEN "0.0" ELSE v

NoParams == [content_type |-> [type |-> "", rate |-> 0, channels |-> 0],
             interimResults |-> FALSE, inactivityTimeout |-> 0, model |-> "",
             backgroundAudioSuppression |-> "", customization_id |-> Undefined]

NoStream == [state |-> "none", params |-> NoParams, callback |-> Undefined]

\* The parameters listen() passes to _stt.recognizeUsingWebSocket: one object
\* literal per branch of if(this.configuration.listen.customization_id).
\* 'audio/l16; rate=16000; channels=N' is kept as its three fields.
RecognizeParamsBroadband(cfg) ==
    [content_type |-> [type |-> "audio/l16", rate |-> 16000,
                       channels |-> IF Truthy(cfg.customization_id) THEN 1 ELSE 2],
     interimResults |-> TRUE,
     inactivityTimeout |-> cfg.inactivityTimeout,
     model |-> cfg.language \o "_BroadbandModel",
     backgroundAudioSuppression |-> SuppressionOrZero(cfg.backgroundAudioSuppression),
     customization_id |-> IF Truthy(cfg.customization_id) THEN cfg.customization_id ELSE Undefined]
RecognizeParamsSwapped(cfg) ==
    [content_type |-> [type |-> "audio/l16", rate |-> 16000,
                       channels |-> IF Truthy(cfg.customization_id) THEN 2 ELSE 1],
     interimResults |-> TRUE,
     inactivityTimeout |-> cfg.inactivityTimeout,
     model |-> cfg.language \o "_NarrowbandModel",
     backgroundAudioSuppression |-> SuppressionOrZero(cfg.backgroundAudioSuppression),
     customization_id |-> IF Truthy(cfg.customization_id) THEN cfg.customization_id ELSE Undefined]
RecognizeParams(cfg) ==
    IF Truthy(cfg.customization_id)
    THEN [content_type |-> [type |-> "audio/l16", rate |-> 16000, channels |-> 1],
          interimResults |-> TRUE,
          inactivityTimeout |-> cfg.inactivityTimeout,
          model |-> cfg.language \o "_NarrowbandModel",
          backgroundAudioSuppression |-> SuppressionOrZero(cfg.backgroundAudioSuppression),
          customization_id |-> cfg.customization_id]
    ELSE [content_type |-> [type |-> "audio/l16", rate |-> 16000, channels |-> 2],
          interimResults |-> TRUE,
          inactivityTimeout |-> cfg.inactivityTimeout,
          model |-> cfg.language \o "_NarrowbandModel",
          backgroundAudioSuppression |-> SuppressionOrZero(cfg.backgroundAudioSuppression),
          customization_id |-> Undefined]

\* ----------------------------------------------------- the TJBot instance

\* The instance as one value, for the methods below, which take it and
\* return it changed.  calls, slept and threw describe the method call in
\* progress: the calls it made on microphone instances and the settle delays
\* among them, in order, the number of settle delays it
\* observed, and whether it ended by throwing.
Bot ==
    [mic |-> _mic, stt |-> _stt, rec |-> _micRecognizeStream, cfg |-> configuration,
     mics |-> mics, streams |-> streams, sinkLog |-> sinkLog,
     soundplayer |-> _soundplayer, players |-> players,
     calls |-> <<>>, slept |-> 0, threw |-> FALSE]

NumMics(b) == Cardinality({m \in MicIds : b.mics[m].state # "none"})
NumStreams(b) == Cardinality({s \in StreamIds : b.streams[s].state # "none"})

\* A call of method op on microphone instance m, which leaves it as after.
MicCall(b, m, op, after) ==
    [b EXCEPT !.mics[m] = after, !.calls = Append(@, <<m, op>>)]

\* TJBot.prototype._setupMicrophone: a new instance replaces this._mic; the
\* instance it replaces is not touched.
_setupMicrophoneKeeps(b) == b
_setupMicrophone(b) ==
    LET m == NumMics(b) + 1
    IN  [b EXCEPT !.mics[m] = MicNew(MicParams(b.cfg)), !.mic = m]

\* TJBot.prototype._assertCapability(capability), case 'listen': whether it
\* returns (TRUE) or throws (FALSE).  The other capabilities are those of
\* methods outside the listening pipeline.
_assertCapabilityNoSttCheck(b, capability) ==
    capability = "listen" => b.mic # 0
_assertCapability(b, capability) ==
    capability = "listen" => (b.mic # 0 /\ b.stt)

Throw(b) == [b EXCEPT !.threw = TRUE]

\* TJBot.prototype._pauseListening
_pauseListeningStops(b) ==
    IF b.mic # 0 THEN MicCall(b, b.mic, "stop", MicStop(b.mics[b.mic])) ELSE b
_pauseListening(b) ==
    IF b.mic # 0 THEN MicCall(b, b.mic, "pause", MicPause(b.mics[b.mic])) ELSE b

\* TJBot.prototype.pauseListening
pauseListening(b) ==
    IF ~_assertCapability(b, "listen") THEN Throw(b) ELSE _pauseListening(b)

\* TJBot.prototype._resumeListening
_resumeListeningStarts(b) ==
    IF b.mic # 0 THEN MicCall(b, b.mic, "start", MicStart(b.mics[b.mic])) ELSE b
_resumeListening(b) ==
    IF b.mic # 0 THEN MicCall(b, b.mic, "resume", MicResume(b.mics[b.mic])) ELSE b

\* TJBot.prototype.resumeListening
resumeListening(b) ==
    IF ~_assertCapability(b, "listen") THEN Throw(b) ELSE _resumeListening(b)

\* TJBot.prototype.sleep(1000): sleep.usleep blocks the caller for the settle
\* delay.  The delay takes its place among the calls, as <<0, "sleep">>.
sleep(b) == [b EXCEPT !.slept = @ + 1, !.calls = Append(@, <<0, "sleep">>)]

\* TJBot.prototype._stopListening
_stopListeningSleepsFirst(b) ==
    IF b.mic # 0
    THEN LET b1 == sleep(b)
         IN  MicCall(b1, b1.mic, "stop", MicStop(b1.mics[b1.mic]))
    ELSE b
_stopListening(b) ==
    IF b.mic # 0
    THEN sleep(MicCall(b, b.mic, "stop", MicStop(b.mics[b.mic])))
    ELSE b

\* TJBot.prototype.stopListening
stopListening(b) ==
    IF ~_assertCapability(b, "listen") THEN Throw(b) ELSE _stopListening(b)

\* TJBot.prototype.listen(callback): the capability check, a new microphone
\* instance, a new recognition stream with the parameters of the current
\* configuration, the pipe of the one into the other, mic.start(), and the
\* 'error' and 'data' handlers, which close over callback.
listen(b, callback) ==
    IF ~_assertCapability(b, "listen") THEN Throw(b)
    ELSE LET b1 == _setupMicrophone(b)
             s == NumStreams(b1) + 1
             b2 == [b1 EXCEPT !.streams[s] = [state |-> "open",
                                              params |-> RecognizeParams(b1.cfg),
                                              callback |-> callback],
                              !.rec = s,
                              !.mics[b1.mic].pipedTo = s]
         IN  MicCall(b2, b2.mic, "start", MicStart(b2.mics[b2.mic]))

\* The 'error' handler listen(callback) registers on its text stream.
OnSttErrorCallsSink(b, callback, err) ==
    IF Truthy(err)
    THEN LET b0 == [b EXCEPT !.sinkLog[b.rec] = Append(@, [sink |-> callback, transcript |-> 0])]
             b1 == resumeListening(b0)
         IN  IF b1.threw THEN b1 ELSE listen(b1, callback)
    ELSE b
OnSttErrorCapped(b, callback, err) ==
    IF Truthy(err)
    THEN LET b1 == resumeListening(b)
         IN  IF b1.threw \/ NumStreams(b1) >= 2 THEN b1 ELSE listen(b1, callback)
    ELSE b
OnSttErrorTwice(b, callback, err) ==
    IF Truthy(err)
    THEN LET b1 == resumeListening(b)
             b2 == IF b1.threw THEN b1 ELSE listen(b1, callback)
         IN  IF b2.threw \/ NumMics(b2) >= MaxMics THEN b2 ELSE listen(b2, callback)
    ELSE b
OnSttErrorNoReconnect(b, callback, err) ==
    IF Truthy(err) THEN resumeListening(b) ELSE b
OnSttError(b, callback, err) ==
    IF Truthy(err)
    THEN LET b1 == resumeListening(b)
         IN  IF b1.threw THEN b1 ELSE listen(b1, callback)
    ELSE b

\* The 'data' handler listen(callback) registers on its text stream s.
OnSttDataTwice(b, s, callback, transcript) ==
    [b EXCEPT !.sinkLog[s] = @ \o << [sink |-> callback, transcript |-> transcript],
                                     [sink |-> callback, transcript |-> transcript] >>]
OnSttData(b, s, callback, transcript) ==
    IF callback # Undefined
    THEN [b EXCEPT !.sinkLog[s] = Append(@, [sink |-> callback, transcript |-> transcript])]
    ELSE b

\* TJBot.prototype.play(soundFile): the microphone is paused first, then the
\* method throws without a speaker; with one it starts a player, whose
\* 'complete' and 'error' handlers run later.  The body has no await, so it
\* runs in one turn.
play(b, soundFile) ==
    LET b1 == _pauseListening(b)
    IN  IF ~b1.soundplayer THEN Throw(b1)
        ELSE [b1 EXCEPT !.players = @ + 1]

\* The 'complete' handler play() registers on its player.
OnPlayerComplete(b) == _resumeListening(b)

\* The 'error' handler play() registers on its player: it logs.
OnPlayerError(b) == b

\* readable.pipe(dest): when dest emits 'error' or 'close' the readable is
\* unpiped from it.
UnpipeNone(ms, s) == ms
Unpipe(ms, s) ==
    [m \in MicIds |-> IF ms[m].pipedTo = s THEN [ms[m] EXCEPT !.pipedTo = 0] ELSE ms[m]]

\* ------------------------------------------------- the states of section 3

\* The session state an observer derives from the current microphone instance.
SessionStateOf(m, ms) ==
    IF m = 0 THEN "Idle"
    ELSE CASE ms[m].state = "created"   -> "Idle"
           [] ms[m].state = "capturing" -> "Active"
           [] ms[m].state = "paused"    -> "Paused"
           [] ms[m].state = "stopped"   -> "Stopped"
           [] OTHER                     -> "Idle"

SessionState == SessionStateOf(_mic, mics)

\* The instances that capture, and those started and not stopped.
Capturing == {m \in MicIds : mics[m].state = "capturing"}
Started == {m \in MicIds : mics[m].state \in {"capturing", "paused"}}
OpenStreams == {s \in StreamIds : streams[s].state = "open"}

\* ------------------------------------------------------------------ steps

\* What a step records of itself: the operation, its argument, the session
\* state, the current instance and stream it found, and what the call did.
Op(name, arg, b) ==
    [op |-> name, arg |-> arg, pre |-> SessionState, preMic |-> _mic,
     preRec |-> _micRecognizeStream, threw |-> b.threw, calls |-> b.calls, slept |-> b.slept,
     err |-> Undefined]

\* The instance after a method call or a handler.
Becomes(b) ==
    /\ _mic' = b.mic
    /\ _micRecognizeStream' = b.rec
    /\ mics' = b.mics
    /\ streams' = b.streams
    /\ sinkLog' = b.sinkLog
    /\ players' = b.players

\* new TJBot(hardware, configuration, credentials): with 'microphone' in
\* hardware the constructor calls _setupMicrophone, with 'speaker' it sets
\* _soundplayer; with speech_to_text credentials it sets _stt.
Init ==
    \E hasMic \in BOOLEAN, hasStt \in BOOLEAN, hasSpeaker \in BOOLEAN,
       cid \in CustomizationIds :
        /\ configuration = [microphoneDeviceId |-> "plughw:1,0", inactivityTimeout |-> -1,
                            language |-> "en-US", customization_id |-> cid,
                            backgroundAudioSuppression |-> Undefined]
        /\ _stt = hasStt
        /\ _soundplayer = hasSpeaker
        /\ players = 0
        /\ _micRecognizeStream = 0
        /\ streams = [s \in StreamIds |-> NoStream]
        /\ IF hasMic
           THEN /\ _mic = 1
                /\ mics = [m \in MicIds |-> IF m = 1 THEN MicNew(MicParams(configuration))
                                            ELSE NoMic]
           ELSE /\ _mic = 0
                /\ mics = [m \in MicIds |-> NoMic]
        /\ emitted = [s \in StreamIds |-> <<>>]
        /\ sinkLog = [s \in StreamIds |-> <<>>]
        /\ pauseRequested = FALSE
        /\ lastOp = [op |-> "new", arg |-> 0, pre |-> "Idle",
                     preMic |-> IF hasMic THEN 1 ELSE 0,
                     preRec |-> 0, threw |-> FALSE, calls |-> <<>>, slept |-> 0,
                     err |-> Undefined]

\* The caller calls listen(callback).
Listen ==
    \E callback \in Callbacks :
        LET b == listen(Bot, callback)
        IN  /\ NumMics(Bot) < MaxMics
            /\ Becomes(b)
            /\ pauseRequested' = (pauseRequested /\ b.threw)
            /\ lastOp' = Op("listen", callback, b)
            /\ UNCHANGED <<_stt, _soundplayer, configuration, emitted>>

\* The caller calls pauseListening().
PauseListening ==
    LET b == pauseListening(Bot)
    IN  /\ Becomes(b)
        /\ pauseRequested' = (pauseRequested \/ (~b.threw /\ SessionState = "Active"))
        /\ lastOp' = Op("pauseListening", 0, b)
        /\ UNCHANGED <<_stt, _soundplayer, configuration, emitted>>

\* The caller calls resumeListening().
ResumeListening ==
    LET b == resumeListening(Bot)
    IN  /\ Becomes(b)
        /\ pauseRequested' = (pauseRequested /\ b.threw)
        /\ lastOp' = Op("resumeListening", 0, b)
        /\ UNCHANGED <<_stt, _soundplayer, configuration, emitted>>

\* The caller calls stopListening().
StopListening ==
    LET b == stopListening(Bot)
    IN  /\ Becomes(b)
        /\ pauseRequested' = (pauseRequested /\ b.threw)
        /\ lastOp' = Op("stopListening", 0, b)
        /\ UNCHANGED <<_stt, _soundplayer, configuration, emitted>>

\* The caller assigns configuration.listen.customization_id.
Configure ==
    \E cid \in CustomizationIds :
        /\ cid # configuration.customization_id
        /\ configuration' = [configuration EXCEPT !.customization_id = cid]
        /\ lastOp' = Op("configure", cid, Bot)
        /\ UNCHANGED <<_mic, _stt, _soundplayer, players, _micRecognizeStream, mics, streams,
                       emitted, sinkLog,
                       pauseRequested>>

\* The caller assigns configuration.listen.language.
ConfigureLanguage ==
    \E language \in Languages :
        /\ language # configuration.language
        /\ configuration' = [configuration EXCEPT !.language = language]
        /\ lastOp' = Op("configureLanguage", language, Bot)
        /\ UNCHANGED <<_mic, _stt, _soundplayer, players, _micRecognizeStream, mics, streams,
                       emitted, sinkLog,
                       pauseRequested>>

\* An open recognition stream emits 'error': the pipe into it is undone,
\* then the handler of the listen() call that opened it runs.
SttError ==
    \E s \in StreamIds, err \in ErrValues :
        LET b0 == [Bot EXCEPT !.streams[s].state = "errored", !.mics = Unpipe(@, s)]
            b == OnSttError(b0, streams[s].callback, err)
        IN  /\ streams[s].state = "open"
            /\ NumMics(Bot) < MaxMics
            /\ Becomes(b)
            /\ pauseRequested' = (pauseRequested /\ ~Truthy(err))
            /\ lastOp' = [Op(IF Truthy(err) THEN "sttError" ELSE "sttErrorNoValue", s, b)
                           EXCEPT !.err = err]
            /\ UNCHANGED <<_stt, _soundplayer, configuration, emitted>>

\* An open recognition stream emits 'data'.  The transcript of the n-th data
\* event of a stream is n, so that no two events of a stream carry the same.
NumData == LET sum[n \in 0..(MaxMics - 1)] ==
                   IF n = 0 THEN 0 ELSE sum[n - 1] + Len(emitted[n])
           IN  sum[MaxMics - 1]
SttData ==
    \E s \in StreamIds :
        LET t == Len(emitted[s]) + 1
            b == OnSttData(Bot, s, streams[s].callback, t)
        IN  /\ streams[s].state = "open"
            /\ NumData < MaxData
            /\ emitted' = [emitted EXCEPT ![s] = Append(@, t)]
            /\ Becomes(b)
            /\ lastOp' = Op("sttData", s, b)
            /\ UNCHANGED <<_stt, _soundplayer, configuration, pauseRequested>>

\* An open recognition stream closes without an error (the service ends the
\* session): the pipe into it is undone; listen() registers no handler.
SttClose ==
    \E s \in StreamIds :
        /\ streams[s].state = "open"
        /\ streams' = [streams EXCEPT ![s].state = "closed"]
        /\ mics' = Unpipe(mics, s)
        /\ lastOp' = Op("sttClose", s, Bot)
        /\ UNCHANGED <<_mic, _stt, _soundplayer, players, _micRecognizeStream, configuration,
                       emitted, sinkLog,
                       pauseRequested>>

\* A capturing microphone instance produces an audio chunk; the pipe writes
\* it to the recognition stream the instance is piped into.
MicChunk ==
    \E m \in MicIds :
        /\ mics[m].state = "capturing"
        /\ mics[m].pipedTo # 0
        /\ lastOp' = Op("micChunk", m, Bot)
        /\ UNCHANGED <<_mic, _stt, _soundplayer, players, _micRecognizeStream, configuration,
                       mics, streams,
                       emitted, sinkLog, pauseRequested>>

\* The input stream of a started microphone instance emits 'error' (the
\* device failed): the handler _setupMicrophone registered logs it.
MicError ==
    \E m \in MicIds :
        /\ mics[m].state \in {"capturing", "paused"}
        /\ lastOp' = Op("micError", m, Bot)
        /\ UNCHANGED <<_mic, _stt, _soundplayer, players, _micRecognizeStream, configuration,
                       mics, streams,
                       emitted, sinkLog, pauseRequested>>

\* The caller calls play(soundFile).
Play ==
    \E soundFile \in SoundFiles :
        LET b == play(Bot, soundFile)
        IN  /\ players < MaxPlayers
            /\ Becomes(b)
            /\ lastOp' = Op("play", soundFile, b)
            /\ UNCHANGED <<_stt, _soundplayer, configuration, emitted, pauseRequested>>

\* A player that plays ends with 'complete'.
PlayComplete ==
    LET b == OnPlayerComplete([Bot EXCEPT !.players = @ - 1])
    IN  /\ players > 0
        /\ Becomes(b)
        /\ lastOp' = Op("playComplete", 0, b)
        /\ UNCHANGED <<_stt, _soundplayer, configuration, emitted, pauseRequested>>

\* A player that plays ends with 'error'.
PlayError ==
    LET b == OnPlayerError([Bot EXCEPT !.players = @ - 1])
    IN  /\ players > 0
        /\ Becomes(b)
        /\ lastOp' = Op("playError", 0, b)
        /\ UNCHANGED <<_stt, _soundplayer, configuration, emitted, pauseRequested>>

\* Every operation of the caller and every event of the environment.
Next ==
    \/ Listen
    \/ PauseListening
    \/ ResumeListening
    \/ StopListening
    \/ Configure
    \/ SttError
    \/ SttData
    \/ SttClose
    \/ MicChunk
    \/ MicError
    \/ ConfigureLanguage
    \/ Play
    \/ PlayComplete
    \/ PlayError

Spec == Init /\ [][Next]_vars

\* An instance whose hardware has no speaker.  No method or handler of the
\* listening pipeline reads _soundplayer, and without play() no player is
\* ever started, so the specifications of the pipeline alone start here.
InitListen == Init /\ ~_soundplayer

\* The session life cycle alone: the configuration stays as constructed and
\* the streams carry no transcripts.  SttData changes emitted, sinkLog and
\* lastOp only and Configure changes configuration and lastOp only, and no
\* action of NextListen reads emitted or sinkLog, so what NextListen does to
\* the microphone instances and the streams is what Next does to them.
NextListen ==
    \/ Listen
    \/ PauseListening
    \/ ResumeListening
    \/ StopListening
    \/ SttError
    \/ SttClose
    \/ MicChunk

SpecListen == InitListen /\ [][NextListen]_vars

\* The life cycle with a caller that changes configuration.listen between
\* the calls.
NextConfig ==
    \/ NextListen
    \/ Configure

SpecConfig == InitListen /\ [][NextConfig]_vars

\* An instance constructed with defaultConfiguration.listen, whose
\* customization_id is ''.
InitDefault == InitListen /\ configuration.customization_id = ""

\* The life cycle with streams that emit data events, under the default
\* configuration: no data handler reads the configuration.
NextData ==
    \/ NextListen
    \/ SttData

SpecData == InitDefault /\ [][NextData]_vars

\* A caller that calls listen() only while no session is open on the
\* instance, as section 3 asks of it.
ListenWhenIdle == Listen /\ SessionState \in {"Idle", "Stopped"}

\* The sessions of such a caller and the failures of their text streams,
\* under the default configuration.
NextRetry ==
    \/ ListenWhenIdle
    \/ PauseListening
    \/ ResumeListening
    \/ StopListening
    \/ SttError
    \/ SttClose
    \/ MicChunk

SpecRetry == InitDefault /\ [][NextRetry]_vars

\* The same, with a caller and an environment that do not all stop for ever
\* while one of them can act.
SpecRetryLive == SpecRetry /\ WF_vars(NextRetry)

\* The sessions of such a caller with every event that reaches a handler of
\* the program: data and errors of the text streams, errors of the
\* microphone input streams.
NextEvents ==
    \/ ListenWhenIdle
    \/ StopListening
    \/ SttError
    \/ SttData
    \/ MicError

SpecEvents == InitDefault /\ [][NextEvents]_vars

\* The sessions of such a caller, paused and resumed, with streams that emit
\* data events.
NextPause ==
    \/ ListenWhenIdle
    \/ PauseListening
    \/ ResumeListening
    \/ StopListening
    \/ SttData
    \/ MicChunk

SpecPause == InitDefault /\ [][NextPause]_vars

\* The sessions of such a caller, who changes the language between the
\* calls, and the failures of their streams, under every customization id.
NextLanguage ==
    \/ ListenWhenIdle
    \/ StopListening
    \/ SttError
    \/ ConfigureLanguage

SpecLanguage == InitListen /\ [][NextLanguage]_vars

\* An instance with or without a speaker, under the default configuration.
InitPlay == Init /\ configuration.customization_id = ""

\* The sessions of such a caller, who pauses, resumes and plays sounds.
NextPlay ==
    \/ ListenWhenIdle
    \/ PauseListening
    \/ ResumeListening
    \/ Play
    \/ PlayComplete
    \/ PlayError

SpecPlay == InitPlay /\ [][NextPlay]_vars

\* A player that plays ends, with one event or the other.
SpecPlayLive == SpecPlay /\ WF_vars(PlayComplete \/ PlayError)

\* ------------------------------------------------------------------ claims

\* C1: at most one listen session is open on the instance: never two
\* microphone instances started and not stopped, never two recognition
\* streams open.
C1_AtMostOneSessionOpen ==
    /\ Cardinality(Started) <= 1
    /\ Cardinality(OpenStreams) <= 1

\* C2: no audio chunk is written to a recognition stream between a
\* pauseListening() and the next resumeListening().
C2_NoChunkWhilePaused ==
    lastOp.op = "micChunk" => ~pauseRequested

\* C3: the second of two stopListening() calls in a row makes no stop call
\* on a microphone instance, observes no settle delay and leaves the session
\* Stopped.
C3_StopIdempotent ==
    [][(/\ lastOp.op = "stopListening"
        /\ ~lastOp.threw
        /\ SessionState = "Stopped"
        /\ lastOp'.op = "stopListening")
       => (/\ lastOp'.calls = <<>>
           /\ lastOp'.slept = 0
           /\ SessionState' = "Stopped")]_vars

\* C4: once stopListening() has stopped the session, a step that is not a
\* listen() call of the caller starts no microphone instance and opens no
\* recognition stream.
C4_StopCancels ==
    [][(SessionState = "Stopped" /\ lastOp'.op # "listen")
       => (Started' \subseteq Started /\ OpenStreams' \subseteq OpenStreams)]_vars

\* C5: an 'error' event carrying an error, on the text stream of the current
\* session while that session is Active or Paused, ends with a reconnect: a
\* new microphone instance is the current one and captures (the session is
\* Active, not Paused), piped into a new, open recognition stream.
C5_ErrorReconnectsActive ==
    (/\ lastOp.op = "sttError"
     /\ lastOp.arg = lastOp.preRec
     /\ lastOp.pre \in {"Active", "Paused"})
    => (/\ SessionState = "Active"
        /\ _mic # lastOp.preMic
        /\ _micRecognizeStream # lastOp.preRec
        /\ streams[_micRecognizeStream].state = "open"
        /\ mics[_mic].pipedTo = _micRecognizeStream)

\* C5 happens: the current stream of a Paused session emitted an error and
\* the session is Active.
C5_Witness ==
    /\ lastOp.op = "sttError"
    /\ lastOp.arg = lastOp.preRec
    /\ lastOp.pre = "Paused"
    /\ SessionState = "Active"

\* C6: the sink given to the listen() call that opened a stream is invoked
\* once per data event of that stream, with the event's transcript, in the
\* order of emission; no other sink is invoked for the stream.
C6_DataDeliveredInOrder ==
    \A s \in StreamIds :
        streams[s].callback \in Sinks =>
            /\ Len(sinkLog[s]) = Len(emitted[s])
            /\ \A i \in 1..Len(sinkLog[s]) :
                  /\ sinkLog[s][i].transcript = emitted[s][i]
                  /\ sinkLog[s][i].sink = streams[s].callback

\* C6 happens: the stream of the Active session has emitted two data events
\* and its sink has been invoked.
C6_Witness ==
    /\ SessionState = "Active"
    /\ _micRecognizeStream # 0
    /\ streams[_micRecognizeStream].callback \in Sinks
    /\ Len(emitted[_micRecognizeStream]) = 2
    /\ Len(sinkLog[_micRecognizeStream]) = 2

\* C7: on an instance without a microphone or without speech_to_text
\* credentials every listen() throws, and nothing is ever constructed,
\* started, opened or invoked.
C7_ListenRefusedWithoutCapability ==
    (_mic = 0 \/ ~_stt)
    => (/\ lastOp.op = "listen" => (lastOp.threw /\ lastOp.calls = <<>>)
        /\ _mic = lastOp.preMic
        /\ _micRecognizeStream = 0
        /\ \A s \in StreamIds : streams[s] = NoStream
        /\ \A m \in MicIds : mics[m].state \in {"none", "created"} /\ (m > 1 => mics[m] = NoMic)
        /\ \A s \in StreamIds : sinkLog[s] = <<>>)

\* C7 happens: listen() was called on an instance that has a microphone and
\* no credentials, and threw.
C7_Witness ==
    /\ lastOp.op = "listen"
    /\ lastOp.threw
    /\ _mic # 0
    /\ ~_stt

\* C8 as claimed: with no session active, pauseListening() and
\* resumeListening() make no call on a microphone instance.
C8_NoCallWithoutSession ==
    (/\ lastOp.op \in {"pauseListening", "resumeListening"}
     /\ lastOp.pre \in {"Idle", "Stopped"})
    => lastOp.calls = <<>>

\* C8 amended: with no session active, pauseListening() and
\* resumeListening() change nothing (the pause or resume call they make is
\* ignored by the instance, which is not capturing; without the capability
\* they throw); with a session active, pauseListening() leaves it Paused and
\* resumeListening() leaves it Active.
C8_PauseResumeEffect ==
    [][(lastOp'.op \in {"pauseListening", "resumeListening"})
       => IF SessionState \in {"Idle", "Stopped"}
          THEN UNCHANGED <<_mic, _stt, _micRecognizeStream, configuration, mics,
                           streams, emitted, sinkLog>>
          ELSE /\ ~lastOp'.threw
               /\ SessionState' = IF lastOp'.op = "pauseListening" THEN "Paused"
                                  ELSE "Active"]_vars

\* C8 happens: resumeListening() was called on a Stopped session, made its
\* call on the stopped instance, and the session is Stopped.
C8_Witness ==
    /\ lastOp.op = "resumeListening"
    /\ lastOp.pre = "Stopped"
    /\ lastOp.calls = << <<_mic, "resume">> >>
    /\ SessionState = "Stopped"

\* C9: after stopListening() returns, the current microphone instance does
\* not capture and the current recognition stream is not open.
C9_StopReleasesBoth ==
    (lastOp.op = "stopListening" /\ ~lastOp.threw)
    => (/\ _mic \notin Started
        /\ _micRecognizeStream \notin OpenStreams)

\* C10: a recognition stream is opened with a content type of 1 channel when
\* configuration.listen.customization_id is a non-empty string, and of 2
\* channels when it is empty or absent.
C10_ChannelsFollowCustomization ==
    (_micRecognizeStream # lastOp.preRec)
    => streams[_micRecognizeStream].params.content_type.channels =
           IF configuration.customization_id \in {Undefined, ""} THEN 2 ELSE 1

\* C10 happens: a reconnect opened a stream of 1 channel for a session whose
\* earlier stream had 2, the caller having set a customization id meanwhile.
C10_Witness ==
    /\ lastOp.op = "sttError"
    /\ _micRecognizeStream # lastOp.preRec
    /\ lastOp.preRec # 0
    /\ streams[lastOp.preRec].params.content_type.channels = 2
    /\ streams[_micRecognizeStream].params.content_type.channels = 1
    /\ configuration.customization_id = "custom-1"

\* C11: a callback given to listen() is invoked by the data events of its
\* text stream only, once per event and with the transcript of the event: no
\* error event of a text stream, no error event of a microphone input
\* stream, no reconnect and no method call invokes a callback.
C11_SinkOnlyOnData ==
    [][(sinkLog' # sinkLog)
       => (/\ lastOp'.op = "sttData"
           /\ \E s \in StreamIds :
                 /\ s = lastOp'.arg
                 /\ emitted'[s] # emitted[s]
                 /\ sinkLog' = [sinkLog EXCEPT ![s] =
                                   Append(@, [sink |-> streams[s].callback,
                                              transcript |-> emitted'[s][Len(emitted'[s])]])])]_vars

\* C11 happens: a text stream whose sink had received a transcript emitted
\* an error, the session reconnected, and nothing was delivered for the new
\* stream.
C11_Witness ==
    /\ lastOp.op = "sttError"
    /\ lastOp.arg = lastOp.preRec
    /\ _micRecognizeStream # lastOp.preRec
    /\ Len(sinkLog[lastOp.arg]) = 1
    /\ sinkLog[_micRecognizeStream] = <<>>

\* C12: an error that is not a transport error (the service rejects the
\* audio parameters of the session) is never followed by an automatic call
\* of listen(): the handler constructs no microphone instance and opens no
\* recognition stream.
C12_ConfigErrorNotRetried ==
    (/\ lastOp.op = "sttError"
     /\ lastOp.err = "config"
     /\ lastOp.arg = lastOp.preRec)
    => (/\ _mic = lastOp.preMic
        /\ _micRecognizeStream = lastOp.preRec)

\* C13: an error event of the input stream of the current microphone
\* instance, in an Active or Paused session, is followed by a reconnect: a
\* new microphone instance is the current one and a new recognition stream
\* is the current one.
C13_MicErrorReconnects ==
    (/\ lastOp.op = "micError"
     /\ lastOp.arg = lastOp.preMic
     /\ lastOp.pre \in {"Active", "Paused"})
    => (/\ _mic # lastOp.preMic
        /\ _micRecognizeStream # lastOp.preRec)

\* C14: every transport error of the current recognition stream of a session
\* that is not Stopped is followed by a reconnect, however many reconnects
\* came before it: the handler calls resume() on the current microphone
\* instance and start() on the next one, which becomes the current one and
\* captures into the next stream, which is open.
C14_EveryErrorReconnects ==
    (/\ lastOp.op = "sttError"
     /\ lastOp.err = "transport"
     /\ lastOp.arg = lastOp.preRec
     /\ lastOp.pre # "Stopped")
    => (/\ ~lastOp.threw
        /\ lastOp.calls = << <<lastOp.preMic, "resume">>, <<lastOp.preMic + 1, "start">> >>
        /\ _mic = lastOp.preMic + 1
        /\ mics[_mic].state = "capturing"
        /\ _micRecognizeStream = lastOp.preRec + 1
        /\ streams[_micRecognizeStream].state = "open")

\* C14 happens: the stream of a session failed, the stream of the reconnect
\* failed in its turn, and the second reconnect is in place.
C14_Witness ==
    /\ lastOp.op = "sttError"
    /\ lastOp.err = "transport"
    /\ lastOp.arg = 2
    /\ lastOp.preRec = 2
    /\ streams[1].state = "errored"
    /\ streams[2].state = "errored"
    /\ streams[3].state = "open"
    /\ \A m \in 2..4 : mics[m].state = "capturing"
    /\ _micRecognizeStream = 3

\* C15: one error event of the current stream of an Active session is one
\* retry: the handler calls listen() once, so that exactly one microphone
\* instance and one recognition stream are added and start() is called once,
\* and the session is Active again when the handler returns, no retry
\* pending.
C15_OneRetryPerError ==
    [][(/\ lastOp'.op = "sttError"
        /\ lastOp'.arg = _micRecognizeStream
        /\ SessionState = "Active")
       => (/\ Cardinality({m \in MicIds : mics'[m].state # "none"})
                = Cardinality({m \in MicIds : mics[m].state # "none"}) + 1
           /\ Cardinality({s \in StreamIds : streams'[s].state # "none"})
                = Cardinality({s \in StreamIds : streams[s].state # "none"}) + 1
           /\ Cardinality({i \in 1..Len(lastOp'.calls) : lastOp'.calls[i][2] = "start"}) = 1
           /\ \A m \in MicIds : mics[m].state # "none" => mics'[m] = Unpipe(mics, lastOp'.arg)[m]
           /\ SessionState' = "Active")]_vars

\* C15 happens: two error events of Active sessions, two reconnects: three
\* streams were opened, two of them failed, the session is Active.
C15_Witness ==
    /\ lastOp.op = "sttError"
    /\ lastOp.pre = "Active"
    /\ Cardinality({s \in StreamIds : streams[s].state = "errored"}) = 2
    /\ Cardinality({s \in StreamIds : streams[s].state # "none"}) = 3
    /\ Cardinality({m \in MicIds : mics[m].state # "none"}) = 4
    /\ SessionState = "Active"

\* C16: when the error handler of the current stream has reconnected, the
\* microphone instance of the failed session does not capture and is not
\* paused: it has been stopped.
C16_FailedMicReleased ==
    (/\ lastOp.op = "sttError"
     /\ lastOp.arg = lastOp.preRec
     /\ _mic # lastOp.preMic)
    => mics[lastOp.preMic].state \notin {"capturing", "paused"}

\* C17: every start of a session uses a microphone instance and a
\* recognition stream constructed for it: start() is called only on an
\* instance constructed in the same step, an instance becomes started only
\* in the step that constructs it (so none is started after it was stopped
\* and none is started twice), the current stream changes only to a stream
\* opened in the same step, and an instance is piped only into such a stream.
C17_FreshInstancesPerStart ==
    [][/\ \A i \in 1..Len(lastOp'.calls) :
              lastOp'.calls[i][2] = "start" => mics[lastOp'.calls[i][1]].state = "none"
       /\ \A m \in MicIds :
              (mics'[m].state \in {"capturing", "paused"}
               /\ mics[m].state \notin {"capturing", "paused"})
              => mics[m].state = "none"
       /\ (_micRecognizeStream' # _micRecognizeStream)
              => (/\ streams[_micRecognizeStream'].state = "none"
                  /\ streams'[_micRecognizeStream'].state = "open")
       /\ \A m \in MicIds :
              (mics'[m].pipedTo # mics[m].pipedTo /\ mics'[m].pipedTo # 0)
              => streams[mics'[m].pipedTo].state = "none"]_vars

\* C17 happens: the caller called listen() on a Stopped session; the stopped
\* instance stays stopped and a new one captures.
C17_Witness ==
    /\ lastOp.op = "listen"
    /\ lastOp.pre = "Stopped"
    /\ ~lastOp.threw
    /\ mics[lastOp.preMic].state = "stopped"
    /\ _mic # lastOp.preMic
    /\ mics[_mic].state = "capturing"

\* C18: no audio chunk is written to a recognition stream that has emitted
\* 'error' or 'close': a microphone instance is piped into an open stream
\* or into none, and every chunk the pipe writes goes to an open stream.
C18_NoChunkAfterErrorOrClose ==
    /\ \A m \in MicIds :
          mics[m].pipedTo # 0 => streams[mics[m].pipedTo].state = "open"
    /\ lastOp.op = "micChunk"
          => (/\ mics[lastOp.arg].pipedTo # 0
              /\ streams[mics[lastOp.arg].pipedTo].state = "open")

\* C18 happens: a stream failed, the instance that fed it still captures,
\* piped into nothing, and the chunk just written came from the instance of
\* the reconnect.
C18_Witness ==
    /\ lastOp.op = "micChunk"
    /\ lastOp.arg = _mic
    /\ \E m \in MicIds :
          /\ m # _mic
          /\ mics[m].state = "capturing"
          /\ mics[m].pipedTo = 0
          /\ m > 1
          /\ streams[m - 1].state = "errored"

\* C19: the stream a reconnect opens has the callback and the parameters
\* (content type, model, inactivity timeout, customization id, suppression
\* factor) of the stream that failed.
C19_ReconnectKeepsConfiguration ==
    (/\ lastOp.op = "sttError"
     /\ lastOp.arg = lastOp.preRec
     /\ _micRecognizeStream # lastOp.preRec)
    => (/\ streams[_micRecognizeStream].callback = streams[lastOp.preRec].callback
        /\ streams[_micRecognizeStream].params = streams[lastOp.preRec].params)

\* C20: pauseListening() on an Active session calls pause() on the current
\* microphone instance, which is then paused, and changes nothing else: the
\* recognition stream stays as it is.  A resumeListening() that follows it
\* at once calls resume() on the same instance, which captures again, and
\* changes nothing else.  The two steps together leave the instances and the
\* streams as they were before the pause, and no callback is invoked.
C20_PauseResumeRoundTrip ==
    [][/\ (lastOp'.op = "pauseListening" /\ SessionState = "Active")
          => (/\ lastOp'.calls = << <<_mic, "pause">> >>
              /\ mics[_mic].state = "capturing"
              /\ mics' = [mics EXCEPT ![_mic].state = "paused"]
              /\ UNCHANGED <<_mic, _micRecognizeStream, streams, emitted, sinkLog,
                             configuration>>)
       /\ (/\ lastOp'.op = "resumeListening"
           /\ lastOp.op = "pauseListening"
           /\ lastOp.pre = "Active")
          => (/\ lastOp'.calls = << <<_mic, "resume">> >>
              /\ mics[_mic].state = "paused"
              /\ mics' = [mics EXCEPT ![_mic].state = "capturing"]
              /\ UNCHANGED <<_mic, _micRecognizeStream, streams, emitted, sinkLog,
                             configuration>>)]_vars

\* C20 happens: a session whose sink had received a transcript was paused
\* and resumed at once; it is Active, its stream open, its sink not invoked
\* again.
C20_Witness ==
    /\ lastOp.op = "resumeListening"
    /\ lastOp.pre = "Paused"
    /\ ~pauseRequested
    /\ SessionState = "Active"
    /\ streams[_micRecognizeStream].state = "open"
    /\ Len(sinkLog[_micRecognizeStream]) = 1

C22_MicChannelsMatchContentType ==
    \A m \in MicIds :
        mics[m].pipedTo # 0
        => mics[m].params.channels = streams[mics[m].pipedTo].params.content_type.channels

\* C23: every microphone instance is created with the sample rate 16000,
\* the content type of every recognition stream declares the rate 16000,
\* and the model of a stream is the listen language configured when it is
\* opened, followed by "_NarrowbandModel".
C23_RateAndNarrowbandModel ==
    /\ \A m \in MicIds : mics[m].state # "none" => mics[m].params.rate = 16000
    /\ \A s \in StreamIds :
          streams[s].state # "none"
          => (/\ streams[s].params.content_type.rate = 16000
              /\ \E language \in Languages :
                    streams[s].params.model = language \o "_NarrowbandModel")
    /\ (_micRecognizeStream # lastOp.preRec)
          => streams[_micRecognizeStream].params.model
                = configuration.language \o "_NarrowbandModel"

\* C23 happens: a stream opened for en-US failed after the caller had set
\* the language to ja-JP, and the stream of the reconnect has the model
\* ja-JP_NarrowbandModel.
C23_Witness ==
    /\ lastOp.op = "sttError"
    /\ lastOp.preRec # 0
    /\ _micRecognizeStream # lastOp.preRec
    /\ streams[lastOp.preRec].params.model = "en-US_NarrowbandModel"
    /\ streams[_micRecognizeStream].params.model = "ja-JP_NarrowbandModel"
    /\ mics[_mic].params.rate = 16000

\* C24: stopListening() calls stop() on the current microphone instance,
\* then observes one settle delay, then returns: the delay comes after the
\* stop call and before anything the caller does next, so that when a
\* listen() follows a stopListening() the instance stopListening() found is
\* not capturing and the delay is over.
C24_SettleDelayAfterStop ==
    [][/\ (lastOp'.op = "stopListening" /\ ~lastOp'.threw)
          => (/\ lastOp'.calls = << <<_mic, "stop">>, <<0, "sleep">> >>
              /\ lastOp'.slept = 1
              /\ mics'[_mic].state \notin {"capturing", "paused"})
       /\ (lastOp'.op = "listen" /\ lastOp.op = "stopListening" /\ ~lastOp.threw)
          => (/\ lastOp.calls[Len(lastOp.calls)] = <<0, "sleep">>
              /\ mics[lastOp.preMic].state \notin {"capturing", "paused"})]_vars

\* C24 happens: the caller called listen() right after a stopListening()
\* that had stopped an Active session and slept.
C24_Witness ==
    /\ lastOp.op = "listen"
    /\ ~lastOp.threw
    /\ lastOp.pre = "Stopped"
    /\ lastOp.calls = << <<_mic, "start">> >>
    /\ \E m \in MicIds : m < _mic /\ mics[m].state = "stopped"

\* C25: while the session is Stopped, a data event of a recognition stream
\* invokes no callback.
C25_NoDeliveryAfterStop ==
    [][(lastOp'.op = "sttData" /\ SessionState = "Stopped") => sinkLog' = sinkLog]_vars

\* C26: an error event of a recognition stream that is not the current one
\* leaves the current session as it is: the current microphone instance and
\* the current stream, and with it the callback in use, do not change.
C26_StaleErrorIgnored ==
    (/\ lastOp.op = "sttError"
     /\ lastOp.arg # lastOp.preRec)
    => (/\ _mic = lastOp.preMic
        /\ _micRecognizeStream = lastOp.preRec)

\* C27: a play() that throws for want of a speaker leaves the session in the
\* state it found: an Active session is still Active.
C27_FailedPlayChangesNothing ==
    (lastOp.op = "play" /\ lastOp.threw) => SessionState = lastOp.pre

\* C28: a session the caller paused, and has not resumed, is still Paused
\* when a player has completed.
C28_CallerPauseSurvivesPlayback ==
    (/\ lastOp.op = "playComplete"
     /\ lastOp.pre = "Paused"
     /\ pauseRequested)
    => SessionState = "Paused"

\* C29: when play() has paused an Active session and started a player, the
\* microphone is eventually resumed: the session does not stay Paused.
C29_PlaybackEventuallyResumes ==
    (/\ lastOp.op = "play"
     /\ lastOp.pre = "Active"
     /\ ~lastOp.threw
     /\ SessionState = "Paused")
    ~> (SessionState # "Paused")

\* C30: when the current recognition stream of an Active or Paused session
\* has ended, with an error or with a close event, the current stream is
\* eventually an open one again, unless the session is stopped first.
C30_EndedStreamEventuallyReplaced ==
    (/\ \E s \in StreamIds :
            s = _micRecognizeStream /\ streams[s].state \in {"errored", "closed"}
     /\ SessionState \in {"Active", "Paused"})
    ~> (\/ \E s \in StreamIds : s = _micRecognizeStream /\ streams[s].state = "open"
        \/ SessionState = "Stopped")

====
